---- MODULE Spec2Model ----
(***************************************************************************)
(* Model of awscli/customizations/paginate.py: the unification of the      *)
(* paging parameters of a paginated operation.                             *)
(*                                                                         *)
(* Python strings on which the code computes (CLI names, argument-table    *)
(* keys, parsed-argument attribute names, event names, values) are         *)
(* sequences of atoms; the characters the code looks at, '-' and '_', are  *)
(* atoms of their own, so that lstrip('-') and replace('-', '_') are       *)
(* computed and not assumed.  "--max-items" is <<"-","-","max","-","items">>.*)
(* Strings the code only compares (parameter names, type names, exception  *)
(* names) are TLA+ strings.                                                *)
(***************************************************************************)
EXTENDS Integers, Sequences, FiniteSets, TLC

VARIABLES
    operation,       \* the operation whose argument table is being built
    argument_table,  \* CLI argument name -> argument descriptor
    handlers,        \* the session's registered handlers, in registration order
    paginate,        \* parsed_globals.paginate
    parsed_args,     \* attribute name -> parsed value (None when not given)
    error,           \* the exception that ended the handler, or "none"
    pc,              \* position in the command's life cycle / in a direct call
    input_tokens,    \* argument of a direct call of check_should_enable_pagination
    result,          \* list(_get_all_cli_input_tokens(operation)) of a direct call
    page_arg,        \* the PageArgument of a direct call of add_to_params
    parameters,      \* the outgoing parameter mapping of add_to_params
    value            \* the value argument of add_to_params

vars == <<operation, argument_table, handlers, paginate, parsed_args, error, pc,
          input_tokens, result, page_arg, parameters, value>>

----------------------------------------------------------------------------
(* Bounds *)

\* longest list of input tokens in a pagination configuration
MaxTokens == 2
\* most arguments a user gives on one command line
MaxSupplied == 2

----------------------------------------------------------------------------
(* Python values *)

\* None, where a string (a sequence of atoms) may stand
None == <<"<None>">>

\* str.lstrip(chars) for a one-character chars
RECURSIVE lstrip(_, _)
lstrip(s, ch) ==
    IF s # << >> /\ Head(s) = ch THEN lstrip(Tail(s), ch) ELSE s

\* str.replace(old, new) for old and new of one atom each
replace(s, old, new) ==
    [i \in DOMAIN s |-> IF s[i] = old THEN new ELSE s[i]]

\* d[k] = v on a dict
Put(d, k, v) ==
    [x \in (DOMAIN d) \cup {k} |-> IF x = k THEN v ELSE d[x]]

Range(s) == {s[i] : i \in DOMAIN s}

----------------------------------------------------------------------------
(* The operation metadata the module reads *)

ParamNames == {"Marker", "NextToken", "MaxResults", "MaxItems"}

\* param.cli_name of the parameter named n
CliNameOf(n) ==
    CASE n = "Marker"     -> <<"-", "-", "marker">>
      [] n = "NextToken"  -> <<"-", "-", "next", "-", "token">>
      [] n = "MaxResults" -> <<"-", "-", "max", "-", "results">>
      [] n = "MaxItems"   -> <<"-", "-", "max", "-", "items">>

\* param.type: the token parameters of a service are strings, the page-size
\* parameters are of any type a service description declares
TypesOf(n) ==
    IF n \in {"Marker", "NextToken"} THEN {"string"}
    ELSE {"string", "integer", "boolean"}

Param(n, t) == [name |-> n, cli_name |-> CliNameOf(n), type |-> t]

\* operation.params: parameters of distinct names, in the service's order
RECURSIVE ParamLists(_)
ParamLists(names) ==
    IF names = << >> THEN {<< >>}
    ELSE LET rest == ParamLists(Tail(names))
         IN  rest \cup {<<Param(Head(names), t)>> \o r :
                            t \in TypesOf(Head(names)), r \in rest}

ParamOrder == <<"Marker", "NextToken", "MaxResults", "MaxItems">>

\* lists of distinct parameter names, of 1 to n names
RECURSIVE NameLists(_)
NameLists(n) ==
    IF n = 0 THEN {<< >>}
    ELSE LET shorter == NameLists(n - 1)
         IN  shorter \cup {Append(l, x) : l \in {m \in shorter : Len(m) = n - 1},
                                          x \in ParamNames}

DistinctLists(n) ==
    {l \in NameLists(n) : l # << >> /\ Cardinality(Range(l)) = Len(l)}

\* pagination['input_token']: one name, [str |-> name], or a list of names,
\* [list |-> names]
InputTokenConfigs ==
    {[str |-> n] : n \in ParamNames}
    \cup {[list |-> l] : l \in DistinctLists(MaxTokens)}

\* operation.pagination: 'limit_key' is an optional key
PaginationConfigs ==
    {[input_token |-> it] : it \in InputTokenConfigs}
    \cup {[input_token |-> it, limit_key |-> k] :
              it \in InputTokenConfigs, k \in ParamNames}

\* An operation can paginate exactly when it has a pagination configuration.
Operations ==
    {[name |-> "ListThings", can_paginate |-> TRUE, pagination |-> pg, params |-> ps] :
          pg \in PaginationConfigs, ps \in ParamLists(ParamOrder)}
    \cup {[name |-> "ListThings", can_paginate |-> FALSE, pagination |-> << >>,
           params |-> ps] : ps \in ParamLists(ParamOrder)}

----------------------------------------------------------------------------
(* The argument table and its descriptors *)

STARTING_TOKEN_HELP == "A token to specify where to start paginating."
MAX_ITEMS_HELP == "The total number of items to return."

STARTING_TOKEN == <<"starting", "-", "token">>
MAX_ITEMS == <<"max", "-", "items">>

\* PageArgument.type_map
type_map == [string |-> "str", integer |-> "int"]

\* The descriptor the framework builds for a parameter of the operation.
CLIArgument(param) ==
    [class |-> "CLIArgument", _name |-> SubSeq(param.cli_name, 3, Len(param.cli_name)),
     _documentation |-> param.name, _parse_type |-> param.type,
     _UNDOCUMENTED |-> FALSE]

\* PageArgument.__init__
PageArgument(name, documentation, parse_type) ==
    [class |-> "PageArgument", _name |-> name, _documentation |-> documentation,
     _parse_type |-> parse_type, _UNDOCUMENTED |-> FALSE]

\* PageArgument.cli_name
cli_name(self) == <<"-", "-">> \o self._name

\* BaseCLIArgument.py_name: the dest of the argument in the parsed namespace
py_name(self) == replace(self._name, "-", "_")

\* The argument table the framework hands over: one entry for each parameter
\* of the operation, keyed by its CLI name without the leading "--".
ArgumentTable(params) ==
    LET args == {CLIArgument(params[i]) : i \in DOMAIN params}
    IN  [k \in {a._name : a \in args} |-> CHOOSE a \in args : a._name = k]

\* A table from which the entries `gone` are missing.
Without(table, gone) == [k \in (DOMAIN table) \ gone |-> table[k]]

----------------------------------------------------------------------------
(* paginate.py *)

_get_cli_name(param_objects, token_name) ==
    LET hits == {i \in DOMAIN param_objects : param_objects[i].name = token_name}
    IN  IF hits = {} THEN None
        ELSE LET first == CHOOSE i \in hits : \A j \in hits : i <= j
             IN  lstrip(param_objects[first].cli_name, "-")

\* isinstance(tokens, list)
isinstance_list(tokens) == "list" \in DOMAIN tokens

_get_input_tokens(op) ==
    LET tokens == op.pagination.input_token
    IN  IF ~isinstance_list(tokens) THEN <<tokens.str>> ELSE tokens.list

\* _get_all_cli_input_tokens yielding the limit key before the input tokens
_get_all_cli_input_tokens_limit_first(op) ==
    LET tokens == _get_input_tokens(op)
        names == [i \in DOMAIN tokens |-> _get_cli_name(op.params, tokens[i])]
    IN  IF "limit_key" \in DOMAIN op.pagination
        THEN <<_get_cli_name(op.params, op.pagination.limit_key)>> \o names
        ELSE names

_get_all_cli_input_tokens(op) ==
    LET tokens == _get_input_tokens(op)
        names == [i \in DOMAIN tokens |-> _get_cli_name(op.params, tokens[i])]
    IN  IF "limit_key" \in DOMAIN op.pagination
        THEN Append(names, _get_cli_name(op.params, op.pagination.limit_key))
        ELSE names

\* The loop of _remove_existing_paging_arguments from the i-th name on: a name
\* that is no key of the table raises KeyError, the names before it already
\* marked.
RECURSIVE MarkFrom(_, _, _)
MarkFrom(table, names, i) ==
    IF i > Len(names) THEN [table |-> table, error |-> "none"]
    ELSE IF names[i] \notin DOMAIN table THEN [table |-> table, error |-> "KeyError"]
    ELSE MarkFrom([table EXCEPT ![names[i]]._UNDOCUMENTED = TRUE], names, i + 1)

_remove_existing_paging_arguments(table, op) ==
    MarkFrom(table, _get_all_cli_input_tokens(op), 1)

\* the lookup of the limit parameter never finding it
FindLimitParam_none(op) == << >>

\* The loop of unify_paging_params that looks for the limit parameter: the
\* parameter found, as a list of none or one.
FindLimitParam(op) ==
    IF "limit_key" \in DOMAIN op.pagination
    THEN LET hits == {i \in DOMAIN op.params :
                          op.params[i].name = op.pagination.limit_key}
         IN  IF hits = {} THEN << >>
             ELSE <<op.params[CHOOSE i \in hits : \A j \in hits : i <= j]>>
    ELSE << >>

\* the callback registered under the event name as it came
ParsedArgsEvent_unreplaced(event_name) == event_name

\* event_name.replace('building-argument-table.', 'operation-args-parsed.')
ParsedArgsEvent(event_name) ==
    replace(event_name, "building-argument-table.", "operation-args-parsed.")

\* unify_paging_params without its can_paginate guard and its reading of the
\* pagination configuration
unify_paging_params_unguarded(table, op, event_name, registered) ==
    [table |-> Put(Put(table, STARTING_TOKEN,
                       PageArgument(STARTING_TOKEN, STARTING_TOKEN_HELP, "string")),
                   MAX_ITEMS, PageArgument(MAX_ITEMS, MAX_ITEMS_HELP, "integer")),
     handlers |-> Append(registered, [event |-> ParsedArgsEvent(event_name),
                                      input_tokens |-> << >>]),
     error |-> "none"]

\* unify_paging_params: the argument table, the session's handlers and the
\* exception it leaves.
unify_paging_params(table, op, event_name, registered) ==
    IF ~op.can_paginate
    THEN [table |-> table, handlers |-> registered, error |-> "none"]
    ELSE
    LET removed == _remove_existing_paging_arguments(table, op)
    IN  IF removed.error # "none"
        THEN [table |-> removed.table, handlers |-> registered, error |-> removed.error]
        ELSE
        LET registered2 == Append(registered,
                               [event |-> ParsedArgsEvent(event_name),
                                input_tokens |-> _get_all_cli_input_tokens(op)])
            table2 == Put(removed.table, STARTING_TOKEN,
                          PageArgument(STARTING_TOKEN, STARTING_TOKEN_HELP, "string"))
            limit_param == FindLimitParam(op)
            type_ == IF limit_param # << >> THEN limit_param[1].type ELSE "integer"
        IN  IF limit_param # << >> /\ limit_param[1].type \notin DOMAIN type_map
            THEN [table |-> table2, handlers |-> registered2, error |-> "TypeError"]
            ELSE [table |-> Put(table2, MAX_ITEMS,
                                PageArgument(MAX_ITEMS, MAX_ITEMS_HELP, type_)),
                  handlers |-> registered2, error |-> "none"]

\* The loop of check_should_enable_pagination from the i-th token on: the
\* flag it leaves and the exception that ended it.
RECURSIVE CheckFrom(_, _, _, _)
CheckFrom(tokens, args, flag, i) ==
    IF i > Len(tokens) THEN [paginate |-> flag, error |-> "none"]
    ELSE IF tokens[i] = None \/ replace(tokens[i], "-", "_") \notin DOMAIN args
    THEN [paginate |-> flag, error |-> "AttributeError"]
    ELSE CheckFrom(tokens, args,
                   IF args[replace(tokens[i], "-", "_")] # None THEN FALSE ELSE flag,
                   i + 1)

\* check_should_enable_pagination returning after its first token
check_should_enable_pagination_first_only(tokens, args, flag) ==
    CheckFrom(IF tokens = << >> THEN tokens ELSE <<Head(tokens)>>, args, flag, 1)

\* check_should_enable_pagination assigning the flag from the tokens' values
\* instead of only clearing it
check_should_enable_pagination_assigning(tokens, args, flag) ==
    [paginate |-> \A i \in DOMAIN tokens : args[replace(tokens[i], "-", "_")] = None,
     error |-> "none"]

check_should_enable_pagination(tokens, args, flag) ==
    CheckFrom(tokens, args, flag, 1)

\* add_to_params without its test of the value
add_to_params_unconditional(self, params, val) ==
    Put(params, py_name(self), val)

\* PageArgument.add_to_params
add_to_params(self, params, val) ==
    IF val # None THEN Put(params, py_name(self), val) ELSE params

----------------------------------------------------------------------------
(* The command's life cycle: the framework builds the argument table and      *)
(* emits building-argument-table.<operation>, parses the command line and     *)
(* emits operation-args-parsed.<operation>.                                   *)

Values == {<<"abc">>, <<"42">>}

BuildingEvent(op) == <<"building-argument-table.", op.name>>
ArgsParsedEvent(op) == <<"operation-args-parsed.", op.name>>

\* The tables the framework may hand over: that of the operation's
\* parameters, or one from which one entry is missing.
ArgumentTables(op) ==
    LET full == ArgumentTable(op.params)
    IN  {full} \cup {Without(full, {k}) : k \in DOMAIN full}

\* The namespace argparse returns: one attribute for each argument of the
\* table, None unless the user gave the argument.
Namespace(table, supplied) ==
    [d \in {py_name(table[a]) : a \in DOMAIN table} |->
        IF \E a \in supplied : py_name(table[a]) = d THEN <<"abc">> ELSE None]

\* session.emit: the handlers registered for the event run in registration
\* order, from the i-th on; an exception ends the emit.
RECURSIVE EmitFrom(_, _, _, _, _)
EmitFrom(registered, event, args, flag, i) ==
    IF i > Len(registered) THEN [paginate |-> flag, error |-> "none"]
    ELSE IF registered[i].event # event
    THEN EmitFrom(registered, event, args, flag, i + 1)
    ELSE LET r == check_should_enable_pagination(registered[i].input_tokens, args, flag)
         IN  IF r.error # "none" THEN r
             ELSE EmitFrom(registered, event, args, r.paginate, i + 1)

NoOperation ==
    [name |-> "", can_paginate |-> FALSE, pagination |-> << >>, params |-> << >>]

Init ==
    /\ operation \in Operations
    /\ argument_table \in ArgumentTables(operation)
    /\ handlers = << >>
    /\ paginate \in BOOLEAN
    /\ parsed_args = << >>
    /\ error = "none"
    /\ pc = "start"
    /\ input_tokens = << >>
    /\ result = << >>
    /\ page_arg = PageArgument(STARTING_TOKEN, STARTING_TOKEN_HELP, "string")
    /\ parameters = << >>
    /\ value = None

\* The building-argument-table event: unify_paging_params runs.
BuildArgumentTable ==
    /\ pc = "start"
    /\ LET r == unify_paging_params(argument_table, operation,
                                    BuildingEvent(operation), handlers)
       IN  /\ argument_table' = r.table
           /\ handlers' = r.handlers
           /\ error' = r.error
           /\ pc' = IF r.error = "none" THEN "built" ELSE "failed"
    /\ UNCHANGED <<operation, paginate, parsed_args, input_tokens, result,
                   page_arg, parameters, value>>

\* The command line is parsed and operation-args-parsed is emitted.
ParseArgs ==
    /\ pc = "built"
    /\ \E supplied \in SUBSET DOMAIN argument_table :
          /\ Cardinality(supplied) <= MaxSupplied
          /\ LET args == Namespace(argument_table, supplied)
                 r == EmitFrom(handlers, ArgsParsedEvent(operation), args, paginate, 1)
             IN  /\ parsed_args' = args
                 /\ paginate' = r.paginate
                 /\ error' = r.error
                 /\ pc' = IF r.error = "none" THEN "parsed" ELSE "failed"
    /\ UNCHANGED <<operation, argument_table, handlers, input_tokens, result,
                   page_arg, parameters, value>>

Next == BuildArgumentTable \/ ParseArgs

Spec == Init /\ [][Next]_vars

----------------------------------------------------------------------------
(* Direct calls of the module's functions, on inputs drawn from bounded sets *)

RECURSIVE SeqsUpTo(_, _)
SeqsUpTo(S, n) ==
    IF n = 0 THEN {<< >>}
    ELSE LET shorter == SeqsUpTo(S, n - 1)
         IN  shorter \cup {Append(l, x) : l \in {m \in shorter : Len(m) = n - 1},
                                          x \in S}

\* the names _get_cli_name gives for the parameters of ParamNames
CliArgNames == {lstrip(CliNameOf(n), "-") : n \in ParamNames}

PageArguments ==
    {PageArgument(STARTING_TOKEN, STARTING_TOKEN_HELP, "string")}
    \cup {PageArgument(MAX_ITEMS, MAX_ITEMS_HELP, t) : t \in DOMAIN type_map}

ParameterKeys == {<<"starting", "_", "token">>, <<"max", "_", "items">>, <<"marker">>}

ParameterMappings ==
    UNION {[keys -> Values] : keys \in SUBSET ParameterKeys}

InitTokens ==
    /\ pc = "call_tokens"
    /\ operation \in {op \in Operations : op.can_paginate}
    /\ input_tokens = << >>
    /\ parsed_args = << >>
    /\ paginate = TRUE
    /\ page_arg = PageArgument(STARTING_TOKEN, STARTING_TOKEN_HELP, "string")
    /\ parameters = << >>
    /\ value = None

InitCheck ==
    /\ pc = "call_check"
    /\ operation = NoOperation
    /\ input_tokens \in SeqsUpTo(CliArgNames, MaxTokens + 1)
    /\ parsed_args \in [{replace(k, "-", "_") : k \in CliArgNames} -> {None, <<"abc">>}]
    /\ paginate \in BOOLEAN
    /\ page_arg = PageArgument(STARTING_TOKEN, STARTING_TOKEN_HELP, "string")
    /\ parameters = << >>
    /\ value = None

InitApply ==
    /\ pc = "call_apply"
    /\ operation = NoOperation
    /\ input_tokens = << >>
    /\ parsed_args = << >>
    /\ paginate = TRUE
    /\ page_arg \in PageArguments
    /\ parameters \in ParameterMappings
    /\ value \in Values \cup {None}

InitCalls ==
    /\ argument_table = << >>
    /\ handlers = << >>
    /\ error = "none"
    /\ result = << >>
    /\ (InitTokens \/ InitCheck \/ InitApply)

CallGetAllCliInputTokens ==
    /\ pc = "call_tokens"
    /\ result' = _get_all_cli_input_tokens(operation)
    /\ pc' = "ret_tokens"
    /\ UNCHANGED <<operation, argument_table, handlers, paginate, parsed_args, error,
                   input_tokens, page_arg, parameters, value>>

CallCheckShouldEnablePagination ==
    /\ pc = "call_check"
    /\ LET r == check_should_enable_pagination(input_tokens, parsed_args, paginate)
       IN  /\ paginate' = r.paginate
           /\ error' = r.error
    /\ pc' = "ret_check"
    /\ UNCHANGED <<operation, argument_table, handlers, parsed_args,
                   input_tokens, result, page_arg, parameters, value>>

CallAddToParams ==
    /\ pc = "call_apply"
    /\ parameters' = add_to_params(page_arg, parameters, value)
    /\ pc' = "ret_apply"
    /\ UNCHANGED <<operation, argument_table, handlers, paginate, parsed_args, error,
                   input_tokens, result, page_arg, value>>

NextCalls ==
    CallGetAllCliInputTokens \/ CallCheckShouldEnablePagination \/ CallAddToParams

SpecCalls == InitCalls /\ [][NextCalls]_vars

----------------------------------------------------------------------------
(* What the claims speak of, written out name by name *)

\* the CLI-facing name of a parameter, its option markers stripped
ExpectedCliArgName(n) ==
    CASE n = "Marker"     -> <<"marker">>
      [] n = "NextToken"  -> <<"next", "-", "token">>
      [] n = "MaxResults" -> <<"max", "-", "results">>
      [] n = "MaxItems"   -> <<"max", "-", "items">>

\* the parsed-argument key of a CLI-facing name
ExpectedParsedKey(k) ==
    CASE k = <<"marker">>               -> <<"marker">>
      [] k = <<"next", "-", "token">>   -> <<"next", "_", "token">>
      [] k = <<"max", "-", "results">>  -> <<"max", "_", "results">>
      [] k = <<"max", "-", "items">>    -> <<"max", "_", "items">>
      [] k = <<"starting", "-", "token">> -> <<"starting", "_", "token">>

HasLimitKey(op) == "limit_key" \in DOMAIN op.pagination

\* the declared input tokens, as a sequence
DeclaredTokens(op) ==
    IF "str" \in DOMAIN op.pagination.input_token
    THEN <<op.pagination.input_token.str>>
    ELSE op.pagination.input_token.list

\* the low-level pagination parameters: the input tokens and the limit key
PaginationNames(op) ==
    Range(DeclaredTokens(op))
    \cup (IF HasLimitKey(op) THEN {op.pagination.limit_key} ELSE {})

HasParam(op, n) == \E i \in DOMAIN op.params : op.params[i].name = n

\* the limit-key parameter is declared with a type other than string, integer
LimitTypeUnsupported(op) ==
    /\ HasLimitKey(op)
    /\ \E i \in DOMAIN op.params :
          /\ op.params[i].name = op.pagination.limit_key
          /\ op.params[i].type \notin {"string", "integer"}

\* every low-level pagination parameter has a descriptor and a table entry
AllInTable(op, table) ==
    \A n \in PaginationNames(op) :
        HasParam(op, n) /\ ExpectedCliArgName(n) \in DOMAIN table

Hidden(arg) == [arg EXCEPT !._UNDOCUMENTED = TRUE]

----------------------------------------------------------------------------
(* Claims *)

\* C1: after unify ran for a paginating operation on building-argument-table.X
\* and operation-args-parsed.X was dispatched, exactly one callback is
\* registered, under operation-args-parsed.X, bound to the names of the
\* operation's input tokens and limit key; and if the parsed arguments give a
\* value to any of them, the pagination flag is false.
C1_OverrideDisablesPagination ==
    (pc = "parsed" /\ operation.can_paginate) =>
        /\ Len(handlers) = 1
        /\ handlers[1].event = <<"operation-args-parsed.", operation.name>>
        /\ Range(handlers[1].input_tokens) =
               {ExpectedCliArgName(n) : n \in PaginationNames(operation)}
        /\ (\E n \in PaginationNames(operation) :
                parsed_args[ExpectedParsedKey(ExpectedCliArgName(n))] # None)
           => paginate = FALSE

C1_Witness ==
    /\ pc = "parsed"
    /\ operation.can_paginate
    /\ HasLimitKey(operation)
    /\ Len(DeclaredTokens(operation)) = 2
    /\ parsed_args[ExpectedParsedKey(ExpectedCliArgName(operation.pagination.limit_key))]
           # None
    /\ \A n \in Range(DeclaredTokens(operation)) :
           parsed_args[ExpectedParsedKey(ExpectedCliArgName(n))] = None
    /\ paginate = FALSE

\* C2: for an operation that cannot paginate, unify leaves the argument table
\* as it was and registers no callback.
C2_NonPaginatingUntouched ==
    [][(pc = "start" /\ ~operation.can_paginate) =>
           /\ argument_table' = argument_table
           /\ handlers' = handlers
           /\ error' = "none"]_vars

C2_Witness ==
    /\ pc = "built"
    /\ ~operation.can_paginate
    /\ Cardinality(DOMAIN argument_table) = 4
    /\ handlers = << >>

\* C3: when unify completes for a paginating operation, the table has the keys
\* it had plus starting-token and max-items, every earlier entry named by an
\* input token or the limit key is the entry it was, marked hidden, and every
\* other earlier entry is unchanged.
C3_TableAfterUnify ==
    [][(pc = "start" /\ operation.can_paginate /\ pc' = "built") =>
           /\ DOMAIN argument_table' =
                  (DOMAIN argument_table) \cup {STARTING_TOKEN, MAX_ITEMS}
           /\ \A k \in DOMAIN argument_table :
                  argument_table'[k] =
                      IF k \in {ExpectedCliArgName(n) : n \in PaginationNames(operation)}
                      THEN Hidden(argument_table[k])
                      ELSE argument_table[k]]_vars

\* C3, apart from the entries that the two new arguments replace.
C3_ApartFromShadowed ==
    [][(pc = "start" /\ operation.can_paginate /\ pc' = "built") =>
           /\ DOMAIN argument_table' =
                  (DOMAIN argument_table) \cup {STARTING_TOKEN, MAX_ITEMS}
           /\ \A k \in (DOMAIN argument_table) \ {STARTING_TOKEN, MAX_ITEMS} :
                  argument_table'[k] =
                      IF k \in {ExpectedCliArgName(n) : n \in PaginationNames(operation)}
                      THEN Hidden(argument_table[k])
                      ELSE argument_table[k]]_vars

\* C4: for a paginating operation whose limit-key parameter has a type other
\* than string and integer, unify raises and the argument table is as it was
\* before the call.
C4_UnsupportedTypeLeavesTable ==
    [][(/\ pc = "start"
        /\ operation.can_paginate
        /\ LimitTypeUnsupported(operation)
        /\ AllInTable(operation, argument_table)) =>
           /\ error' # "none"
           /\ argument_table' = argument_table]_vars

\* C5: unify fails for no other reason than an unsupported limit type; with a
\* supported one, or no limit key, it completes and inserts starting-token and
\* max-items, whether or not every name has a descriptor and a table entry.
C5_NoOtherFailure ==
    [][(/\ pc = "start"
        /\ operation.can_paginate
        /\ ~LimitTypeUnsupported(operation)) =>
           /\ error' = "none"
           /\ {STARTING_TOKEN, MAX_ITEMS} \subseteq DOMAIN argument_table']_vars

\* C6: detect_override leaves the flag false whenever some hidden name, at any
\* position, has a value under its parsed-argument key.
C6_SuppliedDisables ==
    (/\ pc = "ret_check"
     /\ \E i \in DOMAIN input_tokens :
            parsed_args[ExpectedParsedKey(input_tokens[i])] # None)
    => paginate = FALSE

C6_Witness ==
    /\ pc = "ret_check"
    /\ Len(input_tokens) = 3
    /\ input_tokens[3] = <<"next", "-", "token">>
    /\ parsed_args[<<"next", "_", "token">>] # None
    /\ \A k \in (DOMAIN parsed_args) \ {<<"next", "_", "token">>} : parsed_args[k] = None
    /\ paginate = FALSE
    /\ error = "none"

\* C7: detect_override leaves the flag as it was when no hidden name has a
\* value, and never turns a false flag true.
C7_AbsentLeavesFlag ==
    [][pc = "call_check" =>
           /\ (\A i \in DOMAIN input_tokens :
                   parsed_args[ExpectedParsedKey(input_tokens[i])] = None)
              => paginate' = paginate
           /\ ~paginate => ~paginate']_vars

C7_Witness ==
    /\ pc = "ret_check"
    /\ Len(input_tokens) = 2
    /\ \A i \in DOMAIN input_tokens :
           parsed_args[ExpectedParsedKey(input_tokens[i])] = None
    /\ \E k \in DOMAIN parsed_args : parsed_args[k] # None
    /\ paginate = TRUE

\* C8: all_paginated_cli_names gives the CLI-facing name, option markers
\* stripped, of each declared input token in declared order (one name counts
\* as a list of one), then that of the limit key if one is configured; a name
\* without a parameter descriptor gives None.
C8_CliNamesInOrder ==
    pc = "ret_tokens" =>
        LET toks == DeclaredTokens(operation)
            name(n) == IF HasParam(operation, n) THEN ExpectedCliArgName(n) ELSE None
        IN  /\ Len(result) = Len(toks) + (IF HasLimitKey(operation) THEN 1 ELSE 0)
            /\ \A i \in DOMAIN toks : result[i] = name(toks[i])
            /\ HasLimitKey(operation) =>
                   result[Len(result)] = name(operation.pagination.limit_key)

C8_Witness ==
    /\ pc = "ret_tokens"
    /\ "list" \in DOMAIN operation.pagination.input_token
    /\ result = << <<"marker">>, <<"next", "-", "token">>, <<"max", "-", "results">> >>

\* C9: after a successful unify of a paginating operation starting-token is of
\* type string, and max-items is of the type of the limit-key parameter if a
\* limit key is configured, of type integer if not.
C9_PageArgumentTypes ==
    (pc \in {"built", "parsed"} /\ operation.can_paginate) =>
        /\ argument_table[STARTING_TOKEN].class = "PageArgument"
        /\ argument_table[STARTING_TOKEN]._parse_type = "string"
        /\ argument_table[MAX_ITEMS].class = "PageArgument"
        /\ IF HasLimitKey(operation)
           THEN \E i \in DOMAIN operation.params :
                    /\ operation.params[i].name = operation.pagination.limit_key
                    /\ operation.params[i].type \in {"string", "integer"}
                    /\ argument_table[MAX_ITEMS]._parse_type = operation.params[i].type
           ELSE argument_table[MAX_ITEMS]._parse_type = "integer"

C9_Witness ==
    /\ pc = "built"
    /\ operation.can_paginate
    /\ HasLimitKey(operation)
    /\ operation.pagination.limit_key = "MaxResults"
    /\ argument_table[MAX_ITEMS]._parse_type = "string"

\* C10: apply writes a present value under the argument's internal key and
\* leaves every other key as it was; with an absent value it leaves the
\* mapping as it was.
C10_ApplyWritesPresentValue ==
    [][pc = "call_apply" =>
           LET key == ExpectedParsedKey(page_arg._name)
           IN  IF value # None
               THEN /\ DOMAIN parameters' = (DOMAIN parameters) \cup {key}
                    /\ parameters'[key] = value
                    /\ \A k \in (DOMAIN parameters) \ {key} :
                           parameters'[k] = parameters[k]
               ELSE parameters' = parameters]_vars

C10_Witness ==
    /\ pc = "ret_apply"
    /\ page_arg._name = MAX_ITEMS
    /\ value = <<"42">>
    /\ DOMAIN parameters = {<<"max", "_", "items">>, <<"marker">>}
    /\ parameters[<<"max", "_", "items">>] = <<"42">>

====
